---- MODULE Spec2Model ----
(***************************************************************************)
(* moodlight-server: the email-verification workflow of AuthService and    *)
(* the daily question rotation of QuestionService.                         *)
(*                                                                         *)
(* Request handlers are async functions on one event loop: a handler runs  *)
(* without interruption up to its next awaited store call, so every        *)
(* awaited store call is one atomic step and the steps of concurrent       *)
(* handlers interleave.                                                    *)
(***************************************************************************)
EXTENDS Integers, Sequences, FiniteSets, TLC

\* ---------------------------------------------------------------- bounds
MaxCalls == 3          \* AuthService calls started in one behaviour
NumRotators == 2       \* updateTodayQuestion invocations in flight together
MaxQuestions == 3      \* rows the questions table may hold
MaxNow == 3            \* clock ticks (half days) in one behaviour
MaxSeedQuestions == 2  \* rows the questions table may hold at start

Rotators == 1..NumRotators

\* two request handlers may be in flight together
Procs == {1, 2}
\* the confirm codes createConfirmCode draws, the salts bcrypt.genSalt draws
Codes == {1, 2}
Salts == {1}

Emails == {"a", "b"}
Nicknames == {"n1", "n2"}
Plains == {"pw1", "pw2"}
\* adminKey of a JoinDto: absent from the request, or a string
AdminKeys == {"undefined"}

NoNickname == "null"
NoPayload == << >>
NoDate == -1

VARIABLES
  users,          \* rows of the users table
  verifications,  \* rows of the verifications table
  nextUserId,     \* next generated id of the users table
  nextVerId,      \* next generated id of the verifications table
  adminKeyCfg,    \* the configured ADMIN_KEY
  pc,             \* pc[p]: the await a handler is suspended at
  loc,            \* loc[p]: the handler's local variables
  calls,          \* AuthService calls started so far
  joinKey,        \* history: joinKey[e] is the adminKey given to the join that
                  \* last wrote the join verification of email e
  questions,      \* rows of the questions table
  rpc,            \* rpc[r]: position of an updateTodayQuestion invocation
  qres,           \* outcome of the last POST /question request
  now             \* the clock, in half days

authVars == <<users, verifications, nextUserId, nextVerId, adminKeyCfg, pc, loc, calls,
              joinKey>>
questionVars == <<questions, rpc, qres, now>>
vars == <<users, verifications, nextUserId, nextVerId, adminKeyCfg, pc, loc, calls,
          joinKey, questions, rpc, qres, now>>

\* ------------------------------------------------------ QuestionService

\* moment().format('YYYY-MM-DD'): the day of a clock value, time of day dropped
FormatDate(t) == t \div 2

\* a row as questionRepository.create(dto) + save(...) inserts it: the entity's
\* column defaults leave it inactive and without an activation date
NewQuestionRow(id) == [id |-> id, activated |-> FALSE, activated_date |-> NoDate]

MaxId(rows) == IF rows = {} THEN 0 ELSE CHOOSE i \in {r.id : r \in rows} : \A r \in rows : r.id <= i

\* the ids findOne({ where: { activated }, select: ['id'],
\*                   ...(activated ? { order: { id: 'DESC' } } : {}) })?.id
\* may yield; 0 is undefined. Without an order clause the row returned among
\* several matches is the database's choice.
FindOneQuestionId(activated, qs) ==
  LET matches == {q \in qs : q.activated = activated}
  IN IF matches = {} THEN {0}
     ELSE IF activated THEN {MaxId(matches)}
     ELSE {q.id : q \in matches}

\* questionRepository.update(id, { activated, activated_date }); an undefined
\* id is rejected by the repository and changes no row
UpdateQuestion(id, activated, date, qs) ==
  {IF q.id = id THEN [q EXCEPT !.activated = activated, !.activated_date = date] ELSE q : q \in qs}

\* activateQuestionTemplate as it would be were the closure also called, for
\* one of the two directions only
activateQuestionTemplateDeactivateCalled(activated) ==
  [kind |-> IF activated THEN "promise" ELSE "function", activated |-> activated]

activateQuestionTemplateActivateCalled(activated) ==
  [kind |-> IF activated THEN "function" ELSE "promise", activated |-> activated]

\* activateQuestionTemplate(activated) returns the async closure itself: a
\* function value, whose body has not been started
activateQuestionTemplate(activated) == [kind |-> "function", activated |-> activated]

\* The tables `await Promise.all([v1, v2])` may leave. Promise.all awaits the
\* elements that are promises (their bodies were started when they were
\* made: both lookups are issued before either update) and passes any other
\* value through untouched; a function element is never called.
PromiseAll(values, qs, t) ==
  LET ids(i) == IF values[i].kind = "promise"
                THEN FindOneQuestionId(values[i].activated, qs)
                ELSE {0}
  IN {UpdateQuestion(id2, ~values[2].activated, FormatDate(t),
        UpdateQuestion(id1, ~values[1].activated, FormatDate(t), qs))
      : id1 \in ids(1), id2 \in ids(2)}

\* @Cron(EVERY_DAY_AT_MIDNIGHT) updateTodayQuestion(): arms a one second timer
UpdateTodayQuestion(r) ==
  /\ rpc[r] = "idle"
  /\ rpc' = [rpc EXCEPT ![r] = "timer"]
  /\ UNCHANGED <<questions, qres, now>>
  /\ UNCHANGED authVars

\* the timer's callback up to its await
TimerCallback(r) ==
  /\ rpc[r] = "timer"
  /\ questions' \in PromiseAll(<<activateQuestionTemplate(TRUE),
                                activateQuestionTemplate(FALSE)>>, questions, now)
  /\ rpc' = [rpc EXCEPT ![r] = "awaited"]
  /\ UNCHANGED <<qres, now>>
  /\ UNCHANGED authVars

\* the callback after its await: console.log('... Question updated...')
LogQuestionUpdated(r) ==
  /\ rpc[r] = "awaited"
  /\ rpc' = [rpc EXCEPT ![r] = "idle"]
  /\ UNCHANGED <<questions, qres, now>>
  /\ UNCHANGED authVars

\* createQuestion as it would be without the controller's test of is_admin
CreateQuestionUnguarded(isAdmin, rejected) ==
  /\ IF rejected
     THEN /\ qres' = "conflict"
          /\ UNCHANGED questions
     ELSE /\ Cardinality(questions) < MaxQuestions
          /\ questions' = questions \cup {NewQuestionRow(MaxId(questions) + 1)}
          /\ qres' = "success"
  /\ UNCHANGED <<rpc, now>>
  /\ UNCHANGED authVars

\* QuestionController.createQuestion for a request whose req.user.is_admin is
\* isAdmin, and QuestionService.createQuestion behind it; rejected tells
\* whether the store refuses the row (a constraint violation)
CreateQuestion(isAdmin, rejected) ==
  /\ IF ~isAdmin
     THEN /\ qres' = "not_admin"
          /\ UNCHANGED questions
     ELSE IF rejected
     THEN /\ qres' = "conflict"
          /\ UNCHANGED questions
     ELSE /\ Cardinality(questions) < MaxQuestions
          /\ questions' = questions \cup {NewQuestionRow(MaxId(questions) + 1)}
          /\ qres' = "success"
  /\ UNCHANGED <<rpc, now>>
  /\ UNCHANGED authVars

Tick ==
  /\ now < MaxNow
  /\ now' = now + 1
  /\ UNCHANGED <<questions, rpc, qres>>
  /\ UNCHANGED authVars

\* the questions table as it may stand when the service starts: rows 1..n,
\* at most one of them activated
SeedQuestions ==
  {{[id |-> i, activated |-> (i = act),
     activated_date |-> IF i = act THEN 0 ELSE NoDate] : i \in 1..n}
   : n \in 0..MaxSeedQuestions, act \in 0..MaxSeedQuestions}

QuestionInit ==
  /\ questions \in SeedQuestions
  /\ rpc = [r \in Rotators |-> "idle"]
  /\ qres = "none"
  /\ now = 0

QuestionNext ==
  \/ \E r \in Rotators : UpdateTodayQuestion(r)
  \/ \E r \in Rotators : TimerCallback(r)
  \/ \E r \in Rotators : LogQuestionUpdated(r)
  \/ \E isAdmin \in BOOLEAN, rejected \in BOOLEAN : CreateQuestion(isAdmin, rejected)
  \/ Tick

\* ---------------------------------------------------------- AuthService

\* bcrypt.hash(plain, await bcrypt.genSalt(12)): a digest that encodes its salt
EncryptPassword(plain, salt) == <<"$2b$12$", salt, plain>>

\* bcrypt.compare(plain, hash)
BcryptCompare(plain, hash) == hash = EncryptPassword(plain, hash[2])

\* JSON.stringify({ password, is_admin }) and JSON.parse of such a string
JSONStringify(obj) == <<"password", obj.password, "is_admin", obj.is_admin>>
JSONParse(str) == [password |-> str[2], is_admin |-> str[4]]

\* the column default of Verification.mode, which join relies on
DefaultMode == "join"

\* what findOne yields when no row matches
NoVerification ==
  [id |-> 0, email |-> "", nickname |-> NoNickname, confirmCode |-> 0,
   mode |-> "", user |-> NoPayload]
NoUser ==
  [id |-> 0, email |-> "", nickname |-> "", password |-> << >>, is_admin |-> FALSE]

\* repository.findOne(where): one of the matching rows, or nothing
FindOne(matches, none) == IF matches = {} THEN {none} ELSE matches

\* findVerification({ email, mode })
FindVerification(email, mode) ==
  FindOne({v \in verifications : v.email = email /\ v.mode = mode}, NoVerification)

\* the lookup of confirm as it would be were the confirm code left out of it
FindVerificationIgnoringCode(email, confirmCode, mode) == FindVerification(email, mode)

\* verificationRepository.findOne({ email, confirmCode, mode })
FindVerificationByCode(email, confirmCode, mode) ==
  FindOne({v \in verifications :
             v.email = email /\ v.confirmCode = confirmCode /\ v.mode = mode},
          NoVerification)

\* userService.findUserByEmail, userService.findUserByNickname
FindUserByEmail(email) == FindOne({u \in users : u.email = email}, NoUser)
FindUserByNickname(nickname) == FindOne({u \in users : u.nickname = nickname}, NoUser)

\* findUserPassword({ email }): the stored hash, << >> when there is no user
FindUserPassword(email) == {u.password : u \in FindUserByEmail(email)}

\* login's test as it would be without the comparison of the hash
PasswordMatchesAnyPlain(plain, password) == password # << >>

\* login, lines 154-156: a hash was found and the plaintext matches it
PasswordMatches(plain, password) == password # << >> /\ BcryptCompare(plain, password)

\* checkJoinDataAvailability({ email, nickname })
CheckJoinDataAvailability(email, nickname) ==
  LET verificationIsExist == \E v \in verifications : v.nickname = nickname
      nicknameIsExist == NoUser \notin FindUserByNickname(nickname)
      emailIsExist == NoUser \notin FindUserByEmail(email)
  IN IF nicknameIsExist \/ emailIsExist \/ verificationIsExist
     THEN IF emailIsExist THEN "Email" ELSE "Nickname"
     ELSE "available"

\* the users table as it would be without its unique columns
UserSaveNeverRejected(newUser, rows) == FALSE

\* the users table refuses a row whose email or nickname another row holds
UserSaveRejected(newUser, rows) ==
  \E u \in rows : u.email = newUser.email \/ u.nickname = newUser.nickname

\* the overwrite of join as it would be were only the confirm code written
UpdateVerificationDtoCodeOnly(id, dto, rows) ==
  {IF v.id = id THEN [v EXCEPT !.confirmCode = dto.confirmCode] ELSE v : v \in rows}

\* verificationRepository.update(id, patch) for the patches the service uses
UpdateVerificationDto(id, dto, rows) ==
  {IF v.id = id
   THEN [v EXCEPT !.email = dto.email, !.nickname = dto.nickname,
                  !.confirmCode = dto.confirmCode, !.user = dto.user]
   ELSE v : v \in rows}
UpdateVerificationCode(id, confirmCode, rows) ==
  {IF v.id = id THEN [v EXCEPT !.confirmCode = confirmCode] ELSE v : v \in rows}

\* verificationRepository.delete({ email, mode })
DeleteVerification(email, mode, rows) ==
  {v \in rows : ~(v.email = email /\ v.mode = mode)}

\* updateUserPassword(find, plainPassword): the hash of the plaintext, under
\* the salt encryptPassword drew, written to every user matching `find`
UpdateUserPassword(find, plainPassword, salt, rows) ==
  {IF \A k \in DOMAIN find : u[k] = find[k]
   THEN [u EXCEPT !.password = EncryptPassword(plainPassword, salt)]
   ELSE u : u \in rows}

\* findUserPassword({ id }): the stored hash, << >> when there is no user
FindUserPasswordById(id) ==
  {u.password : u \in FindOne({u \in users : u.id = id}, NoUser)}

\* a handler's locals while no call runs in it
IdleLoc ==
  [op |-> "none", email |-> "", nickname |-> NoNickname, confirmCode |-> 0,
   user |-> NoPayload, id |-> 0, res |-> "none", ret |-> 0, returned |-> "none",
   adminKey |-> "undefined", password |-> ""]

Start(p) ==
  /\ pc[p] = "idle"
  /\ calls < MaxCalls
  /\ calls' = calls + 1

\* exceptionHandler(err) reports the failure and comes back: it does not throw
ExceptionHandlerThrows == FALSE

\* a handler's answer as it would be were its return statement inside the try
ReturnValueInsideTry(op, res) ==
  IF res \notin {"success", "user"} THEN "undefined"
  ELSE IF op = "login" THEN "user"
  ELSE "SUCCESS_RESPONSE"

\* what the caller of a handler gets: login returns the user inside its try
\* and nothing after its catch; the others `return SUCCESS_RESPONSE` after
\* the try/catch, which a failure reaches when exceptionHandler comes back
ReturnValue(op, res) ==
  IF res \notin {"success", "user"} /\ ExceptionHandlerThrows THEN "rejected"
  ELSE IF op = "login" THEN (IF res = "user" THEN "user" ELSE "undefined")
  ELSE "SUCCESS_RESPONSE"

\* the handler answers, or hands its failure to exceptionHandler: what stays
\* of it is the operation, its email, its outcome and the value returned
Finish(p, op, email, res, ret) ==
  /\ pc' = [pc EXCEPT ![p] = "idle"]
  /\ loc' = [loc EXCEPT ![p] =
       [IdleLoc EXCEPT !.op = op, !.email = email, !.res = res, !.ret = ret,
                       !.returned = ReturnValue(op, res)]]

\* join, lines 57-72: the lookup of a pending verification, the new confirm
\* code and the verification dto
Join(p, email, plain, nickname, adminKey, confirmCode, salt) ==
  /\ Start(p)
  /\ \E found \in FindVerification(email, "join") :
       /\ loc' = [loc EXCEPT ![p] =
            [IdleLoc EXCEPT !.op = "join", !.email = email, !.nickname = nickname,
               !.confirmCode = confirmCode,
               !.user = JSONStringify([password |-> EncryptPassword(plain, salt),
                                       is_admin |-> (adminKey = adminKeyCfg)]),
               !.id = found.id, !.adminKey = adminKey]]
       /\ pc' = [pc EXCEPT ![p] = IF found.id # 0 THEN "join_update" ELSE "join_check"]
  /\ UNCHANGED <<users, verifications, nextUserId, nextVerId, adminKeyCfg>>
  /\ UNCHANGED <<joinKey, questionVars>>

VerificationDto(l) ==
  [email |-> l.email, nickname |-> l.nickname, confirmCode |-> l.confirmCode,
   user |-> l.user]

\* join, lines 73-77: overwrite the row found
JoinUpdate(p) ==
  /\ pc[p] = "join_update"
  /\ verifications' =
       UpdateVerificationDto(loc[p].id, VerificationDto(loc[p]), verifications)
  /\ pc' = [pc EXCEPT ![p] = "mail"]
  /\ UNCHANGED <<users, nextUserId, nextVerId, adminKeyCfg, loc, calls>>
  /\ joinKey' = [joinKey EXCEPT ![loc[p].email] = loc[p].adminKey]
  /\ UNCHANGED questionVars

\* join, lines 79-85
JoinCheck(p) ==
  /\ pc[p] = "join_check"
  /\ LET joinDataAvailability == CheckJoinDataAvailability(loc[p].email, loc[p].nickname)
     IN IF joinDataAvailability # "available"
        THEN Finish(p, "join", loc[p].email, joinDataAvailability, 0)
        ELSE /\ pc' = [pc EXCEPT ![p] = "join_save"]
             /\ UNCHANGED loc
  /\ UNCHANGED <<users, verifications, nextUserId, nextVerId, adminKeyCfg, calls>>
  /\ UNCHANGED <<joinKey, questionVars>>

\* join, lines 86-89: insert the new row
JoinSave(p) ==
  /\ pc[p] = "join_save"
  /\ verifications' = verifications \cup
       {[id |-> nextVerId, email |-> loc[p].email, nickname |-> loc[p].nickname,
         confirmCode |-> loc[p].confirmCode, mode |-> DefaultMode, user |-> loc[p].user]}
  /\ nextVerId' = nextVerId + 1
  /\ pc' = [pc EXCEPT ![p] = "mail"]
  /\ UNCHANGED <<users, nextUserId, adminKeyCfg, loc, calls>>
  /\ joinKey' = [joinKey EXCEPT ![loc[p].email] = loc[p].adminKey]
  /\ UNCHANGED questionVars

\* the email step as it would be were the written record taken back when the
\* transport fails
SendConfirmEmailUndoingWrite(p, delivered) ==
  /\ pc[p] = "mail"
  /\ Finish(p, loc[p].op, loc[p].email, IF delivered THEN "success" ELSE "mail failed", 0)
  /\ verifications' =
       IF delivered THEN verifications
       ELSE {v \in verifications : v.email # loc[p].email}
  /\ UNCHANGED <<users, nextUserId, nextVerId, adminKeyCfg, calls>>
  /\ UNCHANGED <<joinKey, questionVars>>

\* sendConfirmEmail(email, confirmCode), the last step of join and of
\* changePasswordNotLoggedIn; delivered tells whether the transport accepts it
SendConfirmEmail(p, delivered) ==
  /\ pc[p] = "mail"
  /\ Finish(p, loc[p].op, loc[p].email, IF delivered THEN "success" ELSE "mail failed", 0)
  /\ UNCHANGED <<users, verifications, nextUserId, nextVerId, adminKeyCfg, calls>>
  /\ UNCHANGED <<joinKey, questionVars>>

\* confirm, lines 118-124
Confirm(p, email, confirmCode) ==
  /\ Start(p)
  /\ \E verification \in FindVerificationByCode(email, confirmCode, "join") :
       IF verification.id = 0
       THEN Finish(p, "confirm", email, "Verification does not exists.", 0)
       ELSE /\ loc' = [loc EXCEPT ![p] =
                 [IdleLoc EXCEPT !.op = "confirm", !.email = verification.email,
                    !.nickname = verification.nickname, !.user = verification.user]]
            /\ pc' = [pc EXCEPT ![p] = "confirm_save"]
  /\ UNCHANGED <<users, verifications, nextUserId, nextVerId, adminKeyCfg>>
  /\ UNCHANGED <<joinKey, questionVars>>

\* confirm, lines 125-131: the user made of the verification found
ConfirmSave(p) ==
  /\ pc[p] = "confirm_save"
  /\ LET payload == JSONParse(loc[p].user)
         newUser == [id |-> nextUserId, email |-> loc[p].email,
                     nickname |-> loc[p].nickname,
                     password |-> payload.password, is_admin |-> payload.is_admin]
     IN IF UserSaveRejected(newUser, users)
        THEN /\ Finish(p, "confirm", loc[p].email, "QueryFailedError", 0)
             /\ UNCHANGED <<users, nextUserId>>
        ELSE /\ users' = users \cup {newUser}
             /\ nextUserId' = nextUserId + 1
             /\ pc' = [pc EXCEPT ![p] = "confirm_delete"]
             /\ UNCHANGED loc
  /\ UNCHANGED <<verifications, nextVerId, adminKeyCfg, calls>>
  /\ UNCHANGED <<joinKey, questionVars>>

\* confirm, line 132
ConfirmDelete(p) ==
  /\ pc[p] = "confirm_delete"
  /\ verifications' = DeleteVerification(loc[p].email, "join", verifications)
  /\ Finish(p, "confirm", loc[p].email, "success", 0)
  /\ UNCHANGED <<users, nextUserId, nextVerId, adminKeyCfg, calls>>
  /\ UNCHANGED <<joinKey, questionVars>>

\* login, lines 153-160: the stored hash and its comparison
Login(p, email, plain) ==
  /\ Start(p)
  /\ \E password \in FindUserPassword(email) :
       IF PasswordMatches(plain, password)
       THEN /\ loc' = [loc EXCEPT ![p] = [IdleLoc EXCEPT !.op = "login", !.email = email]]
            /\ pc' = [pc EXCEPT ![p] = "login_user"]
       ELSE Finish(p, "login", email, "Unauthorized", 0)
  /\ UNCHANGED <<users, verifications, nextUserId, nextVerId, adminKeyCfg>>
  /\ UNCHANGED <<joinKey, questionVars>>

\* login, line 157: the user returned
LoginFindUser(p) ==
  /\ pc[p] = "login_user"
  /\ \E user \in FindUserByEmail(loc[p].email) :
       Finish(p, "login", loc[p].email, "user", user.id)
  /\ UNCHANGED <<users, verifications, nextUserId, nextVerId, adminKeyCfg, calls>>
  /\ UNCHANGED <<joinKey, questionVars>>

\* changePasswordNotLoggedIn as it would be without its test of the user
ChangePasswordNotLoggedInUnchecked(p, email) ==
  /\ Start(p)
  /\ loc' = [loc EXCEPT ![p] =
       [IdleLoc EXCEPT !.op = "changePasswordNotLoggedIn", !.email = email]]
  /\ pc' = [pc EXCEPT ![p] = "cp_find"]
  /\ UNCHANGED <<users, verifications, nextUserId, nextVerId, adminKeyCfg>>
  /\ UNCHANGED <<joinKey, questionVars>>

\* changePasswordNotLoggedIn, lines 205-208
ChangePasswordNotLoggedIn(p, email) ==
  /\ Start(p)
  /\ \E user \in FindUserByEmail(email) :
       IF user.id = 0
       THEN Finish(p, "changePasswordNotLoggedIn", email, "User email does not exist.", 0)
       ELSE /\ loc' = [loc EXCEPT ![p] =
                 [IdleLoc EXCEPT !.op = "changePasswordNotLoggedIn", !.email = email]]
            /\ pc' = [pc EXCEPT ![p] = "cp_find"]
  /\ UNCHANGED <<users, verifications, nextUserId, nextVerId, adminKeyCfg>>
  /\ UNCHANGED <<joinKey, questionVars>>

\* changePasswordNotLoggedIn, lines 209-213
ChangePasswordFind(p, confirmCode) ==
  /\ pc[p] = "cp_find"
  /\ \E found \in FindVerification(loc[p].email, "change_password") :
       /\ loc' = [loc EXCEPT ![p].confirmCode = confirmCode, ![p].id = found.id]
       /\ pc' = [pc EXCEPT ![p] = IF found.id # 0 THEN "cp_update" ELSE "cp_save"]
  /\ UNCHANGED <<users, verifications, nextUserId, nextVerId, adminKeyCfg, calls>>
  /\ UNCHANGED <<joinKey, questionVars>>

\* changePasswordNotLoggedIn, lines 214-217
ChangePasswordUpdate(p) ==
  /\ pc[p] = "cp_update"
  /\ verifications' =
       UpdateVerificationCode(loc[p].id, loc[p].confirmCode, verifications)
  /\ pc' = [pc EXCEPT ![p] = "mail"]
  /\ UNCHANGED <<users, nextUserId, nextVerId, adminKeyCfg, loc, calls>>
  /\ UNCHANGED <<joinKey, questionVars>>

\* changePasswordNotLoggedIn, lines 218-224
ChangePasswordSave(p) ==
  /\ pc[p] = "cp_save"
  /\ verifications' = verifications \cup
       {[id |-> nextVerId, email |-> loc[p].email, nickname |-> NoNickname,
         confirmCode |-> loc[p].confirmCode, mode |-> "change_password",
         user |-> NoPayload]}
  /\ nextVerId' = nextVerId + 1
  /\ pc' = [pc EXCEPT ![p] = "mail"]
  /\ UNCHANGED <<users, nextUserId, adminKeyCfg, loc, calls>>
  /\ UNCHANGED <<joinKey, questionVars>>

\* confirmChangePasswordNotLoggedIn as it would be were the mode left out of
\* its lookup
ConfirmChangePasswordAnyMode(p, email, confirmCode, password) ==
  /\ Start(p)
  /\ \E verification \in
          FindOne({v \in verifications :
                     v.email = email /\ v.confirmCode = confirmCode},
                  NoVerification) :
       IF verification.id = 0
       THEN Finish(p, "confirmChangePasswordNotLoggedIn", email,
                   "Verification does not exists.", 0)
       ELSE /\ loc' = [loc EXCEPT ![p] =
                 [IdleLoc EXCEPT !.op = "confirmChangePasswordNotLoggedIn",
                    !.email = email, !.password = password]]
            /\ pc' = [pc EXCEPT ![p] = "ccp_update"]
  /\ UNCHANGED <<users, verifications, nextUserId, nextVerId, adminKeyCfg>>
  /\ UNCHANGED <<joinKey, questionVars>>

\* confirmChangePasswordNotLoggedIn, lines 239-246: the lookup by email,
\* confirm code and mode 'change_password'
ConfirmChangePasswordNotLoggedIn(p, email, confirmCode, password) ==
  /\ Start(p)
  /\ \E verification \in FindVerificationByCode(email, confirmCode, "change_password") :
       IF verification.id = 0
       THEN Finish(p, "confirmChangePasswordNotLoggedIn", email,
                   "Verification does not exists.", 0)
       ELSE /\ loc' = [loc EXCEPT ![p] =
                 [IdleLoc EXCEPT !.op = "confirmChangePasswordNotLoggedIn",
                    !.email = email, !.password = password]]
            /\ pc' = [pc EXCEPT ![p] = "ccp_update"]
  /\ UNCHANGED <<users, verifications, nextUserId, nextVerId, adminKeyCfg>>
  /\ UNCHANGED <<joinKey, questionVars>>

\* confirmChangePasswordNotLoggedIn, line 247
ConfirmChangePasswordUpdate(p, salt) ==
  /\ pc[p] = "ccp_update"
  /\ users' = UpdateUserPassword([email |-> loc[p].email], loc[p].password, salt, users)
  /\ pc' = [pc EXCEPT ![p] = "ccp_delete"]
  /\ UNCHANGED <<verifications, nextUserId, nextVerId, adminKeyCfg, loc, calls>>
  /\ UNCHANGED <<joinKey, questionVars>>

\* confirmChangePasswordNotLoggedIn as it would be without its line 248
ConfirmChangePasswordKeepingRecord(p) ==
  /\ pc[p] = "ccp_delete"
  /\ Finish(p, "confirmChangePasswordNotLoggedIn", loc[p].email, "success", 0)
  /\ UNCHANGED <<users, verifications, nextUserId, nextVerId, adminKeyCfg, calls>>
  /\ UNCHANGED <<joinKey, questionVars>>

\* confirmChangePasswordNotLoggedIn, line 248
ConfirmChangePasswordDelete(p) ==
  /\ pc[p] = "ccp_delete"
  /\ verifications' = DeleteVerification(loc[p].email, "change_password", verifications)
  /\ Finish(p, "confirmChangePasswordNotLoggedIn", loc[p].email, "success", 0)
  /\ UNCHANGED <<users, nextUserId, nextVerId, adminKeyCfg, calls>>
  /\ UNCHANGED <<joinKey, questionVars>>

\* changePassword as it would be without the comparison of the old password
ChangePasswordUnchecked(p, id, plain, newPassword) ==
  /\ Start(p)
  /\ \E password \in FindUserPasswordById(id) :
       IF password = << >>
       THEN Finish(p, "changePassword", "", "User does not exist.", 0)
       ELSE /\ loc' = [loc EXCEPT ![p] =
                 [IdleLoc EXCEPT !.op = "changePassword", !.id = id,
                    !.password = newPassword]]
            /\ pc' = [pc EXCEPT ![p] = "chp_update"]
  /\ UNCHANGED <<users, verifications, nextUserId, nextVerId, adminKeyCfg>>
  /\ UNCHANGED <<joinKey, questionVars>>

\* changePassword, lines 183-190: the stored hash of user `id` and the
\* comparison of the old password with it
ChangePassword(p, id, plain, newPassword) ==
  /\ Start(p)
  /\ \E password \in FindUserPasswordById(id) :
       IF password = << >>
       THEN Finish(p, "changePassword", "", "User does not exist.", 0)
       ELSE IF ~ BcryptCompare(plain, password)
       THEN Finish(p, "changePassword", "", "Unauthorized", 0)
       ELSE /\ loc' = [loc EXCEPT ![p] =
                 [IdleLoc EXCEPT !.op = "changePassword", !.id = id,
                    !.password = newPassword]]
            /\ pc' = [pc EXCEPT ![p] = "chp_update"]
  /\ UNCHANGED <<users, verifications, nextUserId, nextVerId, adminKeyCfg>>
  /\ UNCHANGED <<joinKey, questionVars>>

\* changePassword, line 191
ChangePasswordUpdateUser(p, salt) ==
  /\ pc[p] = "chp_update"
  /\ users' = UpdateUserPassword([id |-> loc[p].id], loc[p].password, salt, users)
  /\ Finish(p, "changePassword", "", "success", 0)
  /\ UNCHANGED <<verifications, nextUserId, nextVerId, adminKeyCfg, calls>>
  /\ UNCHANGED <<joinKey, questionVars>>

\* a user confirmed before the behaviour starts
SeedUser ==
  [id |-> 1, email |-> "b", nickname |-> "n2",
   password |-> EncryptPassword("pw1", 1), is_admin |-> FALSE]

AuthInit ==
  /\ users \in {{}, {SeedUser}}
  /\ verifications = {}
  /\ nextUserId = 2
  /\ nextVerId = 1
  /\ adminKeyCfg = "secret"
  /\ pc = [p \in Procs |-> "idle"]
  /\ loc = [p \in Procs |-> IdleLoc]
  /\ calls = 0
  /\ joinKey = [e \in Emails |-> "undefined"]

AuthNext ==
  \/ \E p \in Procs, email \in Emails, plain \in Plains, nickname \in Nicknames,
        adminKey \in AdminKeys, confirmCode \in Codes, salt \in Salts :
       Join(p, email, plain, nickname, adminKey, confirmCode, salt)
  \/ \E p \in Procs : JoinUpdate(p)
  \/ \E p \in Procs : JoinCheck(p)
  \/ \E p \in Procs : JoinSave(p)
  \/ \E p \in Procs, delivered \in BOOLEAN : SendConfirmEmail(p, delivered)
  \/ \E p \in Procs, email \in Emails, confirmCode \in Codes : Confirm(p, email, confirmCode)
  \/ \E p \in Procs : ConfirmSave(p)
  \/ \E p \in Procs : ConfirmDelete(p)
  \/ \E p \in Procs, email \in Emails, plain \in Plains : Login(p, email, plain)
  \/ \E p \in Procs : LoginFindUser(p)
  \/ \E p \in Procs, email \in Emails : ChangePasswordNotLoggedIn(p, email)
  \/ \E p \in Procs, confirmCode \in Codes : ChangePasswordFind(p, confirmCode)
  \/ \E p \in Procs : ChangePasswordUpdate(p)
  \/ \E p \in Procs : ChangePasswordSave(p)

\* ------------------------------------------------------- specifications

\* the authentication workflow, the questions table left alone
Init ==
  /\ AuthInit
  /\ questions = {}
  /\ rpc = [r \in Rotators |-> "idle"]
  /\ qres = "none"
  /\ now = 0

Next == AuthNext

Spec == Init /\ [][Next]_vars

\* the question rotation, the authentication workflow left alone
QInit ==
  /\ QuestionInit
  /\ users = {SeedUser}
  /\ verifications = {}
  /\ nextUserId = 2
  /\ nextVerId = 1
  /\ adminKeyCfg = "secret"
  /\ pc = [p \in Procs |-> "idle"]
  /\ loc = [p \in Procs |-> IdleLoc]
  /\ calls = 0
  /\ joinKey = [e \in Emails |-> "undefined"]

QSpec == QInit /\ [][QuestionNext]_vars

\* registration alone, one handler at a time, for either state of the
\* configuration (ADMIN_KEY set, or left out of the environment) and every
\* kind of adminKey a join request can carry: none, the secret, another string
JoinAdminKeys == {"undefined", "secret", "guess"}

AdminInit ==
  /\ users = {}
  /\ verifications = {}
  /\ nextUserId = 1
  /\ nextVerId = 1
  /\ adminKeyCfg \in {"undefined", "secret"}
  /\ pc = [p \in Procs |-> "idle"]
  /\ loc = [p \in Procs |-> IdleLoc]
  /\ calls = 0
  /\ joinKey = [e \in Emails |-> "undefined"]
  /\ questions = {}
  /\ rpc = [r \in Rotators |-> "idle"]
  /\ qres = "none"
  /\ now = 0

AdminNext ==
  \/ \E email \in Emails, nickname \in Nicknames, adminKey \in JoinAdminKeys,
        confirmCode \in Codes :
       Join(1, email, "pw1", nickname, adminKey, confirmCode, 1)
  \/ JoinUpdate(1)
  \/ JoinCheck(1)
  \/ JoinSave(1)
  \/ \E delivered \in BOOLEAN : SendConfirmEmail(1, delivered)
  \/ \E email \in Emails, confirmCode \in Codes : Confirm(1, email, confirmCode)
  \/ ConfirmSave(1)
  \/ ConfirmDelete(1)

AdminSpec == AdminInit /\ [][AdminNext]_vars

\* the two ways of changing a password, for two confirmed users
SecondUser ==
  [id |-> 2, email |-> "a", nickname |-> "n1",
   password |-> EncryptPassword("pw2", 1), is_admin |-> FALSE]

UserIds == {1, 2, 3}

PwInit ==
  /\ users = {SeedUser, SecondUser}
  /\ verifications = {}
  /\ nextUserId = 3
  /\ nextVerId = 1
  /\ adminKeyCfg = "secret"
  /\ pc = [p \in Procs |-> "idle"]
  /\ loc = [p \in Procs |-> IdleLoc]
  /\ calls = 0
  /\ joinKey = [e \in Emails |-> "undefined"]
  /\ questions = {}
  /\ rpc = [r \in Rotators |-> "idle"]
  /\ qres = "none"
  /\ now = 0

PwNext ==
  \/ \E p \in Procs, email \in Emails : ChangePasswordNotLoggedIn(p, email)
  \/ \E p \in Procs, confirmCode \in Codes : ChangePasswordFind(p, confirmCode)
  \/ \E p \in Procs : ChangePasswordUpdate(p)
  \/ \E p \in Procs : ChangePasswordSave(p)
  \/ \E p \in Procs, delivered \in BOOLEAN : SendConfirmEmail(p, delivered)
  \/ \E p \in Procs, email \in Emails, confirmCode \in Codes, password \in Plains :
       ConfirmChangePasswordNotLoggedIn(p, email, confirmCode, password)
  \/ \E p \in Procs, salt \in Salts : ConfirmChangePasswordUpdate(p, salt)
  \/ \E p \in Procs : ConfirmChangePasswordDelete(p)
  \/ \E p \in Procs, id \in UserIds, plain \in Plains, newPassword \in Plains :
       ChangePassword(p, id, plain, newPassword)
  \/ \E p \in Procs, salt \in Salts : ChangePasswordUpdateUser(p, salt)

PwSpec == PwInit /\ [][PwNext]_vars

\* both kinds of verification side by side: registration and the password
\* reset, with createConfirmCode drawing the same code every time, so that a
\* record of one mode always carries the code asked for in the other
SameCode == {1}

ModeInit ==
  /\ users = {SeedUser}
  /\ verifications = {}
  /\ nextUserId = 2
  /\ nextVerId = 1
  /\ adminKeyCfg = "secret"
  /\ pc = [p \in Procs |-> "idle"]
  /\ loc = [p \in Procs |-> IdleLoc]
  /\ calls = 0
  /\ joinKey = [e \in Emails |-> "undefined"]
  /\ questions = {}
  /\ rpc = [r \in Rotators |-> "idle"]
  /\ qres = "none"
  /\ now = 0

ModeNext ==
  \/ \E p \in Procs, email \in Emails, confirmCode \in SameCode :
       Join(p, email, "pw2", "n1", "undefined", confirmCode, 1)
  \/ \E p \in Procs : JoinUpdate(p)
  \/ \E p \in Procs : JoinCheck(p)
  \/ \E p \in Procs : JoinSave(p)
  \/ \E p \in Procs, delivered \in BOOLEAN : SendConfirmEmail(p, delivered)
  \/ \E p \in Procs, email \in Emails, confirmCode \in SameCode :
       Confirm(p, email, confirmCode)
  \/ \E p \in Procs : ConfirmSave(p)
  \/ \E p \in Procs : ConfirmDelete(p)
  \/ \E p \in Procs, email \in Emails : ChangePasswordNotLoggedIn(p, email)
  \/ \E p \in Procs, confirmCode \in SameCode : ChangePasswordFind(p, confirmCode)
  \/ \E p \in Procs : ChangePasswordUpdate(p)
  \/ \E p \in Procs : ChangePasswordSave(p)
  \/ \E p \in Procs, email \in Emails, confirmCode \in SameCode :
       ConfirmChangePasswordNotLoggedIn(p, email, confirmCode, "pw2")
  \/ \E p \in Procs : ConfirmChangePasswordUpdate(p, 1)
  \/ \E p \in Procs : ConfirmChangePasswordDelete(p)

ModeSpec == ModeInit /\ [][ModeNext]_vars

\* --------------------------------------------- claims on the questions

Activated(id, qs) == \E q \in qs : q.id = id /\ q.activated
Inactive(id, qs) == \E q \in qs : q.id = id /\ ~q.activated
ExactlyOneOfTwo(qs) ==
  \/ Activated(1, qs) /\ Inactive(2, qs)
  \/ Inactive(1, qs) /\ Activated(2, qs)

\* C2: once exactly one of questions 1 and 2 is activated (question 1
\* activated and question 2 inactive, or the reverse after a rotation), every
\* step, of one rotation or of rotations running together, leaves exactly one
\* of the two activated: never both, never neither.
C2_RotationKeepsExactlyOne ==
  [][ExactlyOneOfTwo(questions) => ExactlyOneOfTwo(questions')]_vars

\* two rotations have run together on question 1 activated, question 2 inactive
C2_Witness ==
  /\ \A r \in Rotators : rpc[r] = "awaited"
  /\ Activated(1, questions)
  /\ Inactive(2, questions)

\* C3: a rotation deactivates the activated question and activates the
\* inactive question with the highest id, both stamped with today's date.
C3_RotationSwitchesQuestion ==
  [][\A r \in Rotators :
       TimerCallback(r) =>
         LET inactive == {q \in questions : ~q.activated}
             stamped(id, activated) ==
               \E q \in questions' : /\ q.id = id
                                     /\ q.activated = activated
                                     /\ q.activated_date = FormatDate(now)
         IN /\ \A q \in questions : q.activated => stamped(q.id, FALSE)
            /\ inactive # {} => stamped(MaxId(inactive), TRUE)]_vars

\* C4: in every state at most one question is activated.
C4_AtMostOneActivated ==
  Cardinality({q \in questions : q.activated}) <= 1

\* a rotation has run and a question has been created beside the activated one
C4_Witness ==
  /\ \E r \in Rotators : rpc[r] = "awaited"
  /\ qres = "success"
  /\ Cardinality({q \in questions : q.activated}) = 1
  /\ Cardinality(questions) = MaxQuestions

\* ------------------------------------- claims on the verification workflow

JoinRows(email, rows) == {v \in rows : v.email = email /\ v.mode = "join"}

\* C1: in every state the verification store holds at most one record for
\* each (email, mode) pair.
C1_OneVerificationPerEmailAndMode ==
  \A v, w \in verifications : (v.email = w.email /\ v.mode = w.mode) => v = w

\* C5: a join that found its email and nickname unclaimed leaves, when it has
\* inserted its record, exactly one join verification for that email and no
\* user with that email; and a user only ever appears by a confirm.
C5_FreshJoinLeavesOneVerification ==
  [][(\A p \in Procs :
         JoinSave(p) =>
           /\ Cardinality(JoinRows(loc[p].email, verifications')) = 1
           /\ ~ \E u \in users' : u.email = loc[p].email)
     /\ (users' # users => \E p \in Procs : ConfirmSave(p))]_vars

\* C6: a join that found a pending join verification for its email, and
\* whose record is still there when it writes, updates that record in place:
\* the same ids are stored, the number of join records of the email is
\* unchanged (one stays one), and the record carries the join's new confirm
\* code, nickname and hashed-password payload.
C6_JoinOverwritesInPlace ==
  [][\A p \in Procs :
       (JoinUpdate(p) /\ \E v \in verifications : v.id = loc[p].id) =>
         /\ \E v \in verifications' :
              /\ v.id = loc[p].id
              /\ v.mode = "join"
              /\ v.email = loc[p].email
              /\ v.nickname = loc[p].nickname
              /\ v.confirmCode = loc[p].confirmCode
              /\ v.user = loc[p].user
         /\ {v.id : v \in verifications'} = {v.id : v \in verifications}
         /\ Cardinality(JoinRows(loc[p].email, verifications'))
              = Cardinality(JoinRows(loc[p].email, verifications))]_vars

\* a second join for an email has overwritten the one record ever inserted
C6_Witness ==
  \E p \in Procs :
    /\ pc[p] = "mail"
    /\ loc[p].op = "join"
    /\ loc[p].id # 0
    /\ nextVerId = 2
    /\ \E v \in verifications :
         /\ v.id = loc[p].id
         /\ v.confirmCode = loc[p].confirmCode
         /\ v.user = loc[p].user
         /\ Cardinality(JoinRows(v.email, verifications)) = 1

\* C7: a confirm that found the join verification of (email, code) leaves
\* exactly one user with the verification's email, nickname and password
\* hash, and once it has deleted, no join verification of that email.
C7_ConfirmCreatesUser ==
  [][\A p \in Procs :
       /\ ConfirmSave(p) =>
            Cardinality({u \in users' :
                           /\ u.email = loc[p].email
                           /\ u.nickname = loc[p].nickname
                           /\ u.password = JSONParse(loc[p].user).password}) = 1
       /\ ConfirmDelete(p) => JoinRows(loc[p].email, verifications') = {}]_vars

\* C8: a confirm whose (email, code) matches no join verification fails with
\* "Verification does not exists.", goes no further, creates no user and
\* leaves the verifications as they were.
C8_ConfirmWithoutMatchFails ==
  [][\A p \in Procs, email \in Emails, confirmCode \in Codes :
       (/\ Confirm(p, email, confirmCode)
        /\ ~ \E v \in verifications :
               v.email = email /\ v.confirmCode = confirmCode /\ v.mode = "join") =>
         /\ pc'[p] = "idle"
         /\ loc'[p].res = "Verification does not exists."
         /\ users' = users
         /\ verifications' = verifications]_vars

\* a confirm has failed on a wrong code: the email's join verification is there
C8_Witness ==
  \E p \in Procs :
    /\ pc[p] = "idle"
    /\ loc[p].op = "confirm"
    /\ loc[p].res = "Verification does not exists."
    /\ JoinRows(loc[p].email, verifications) # {}
    /\ \A q \in Procs : pc[q] = "idle"

\* C9: no two users share an email and no two users share a nickname.
C9_UsersUnique ==
  \A u, w \in users : (u.email = w.email \/ u.nickname = w.nickname) => u = w

\* the one verification ever inserted was overwritten by a join with the
\* nickname of an existing user, and its confirm was refused
C9_Witness ==
  \E p \in Procs :
    /\ loc[p].op = "confirm"
    /\ loc[p].res = "QueryFailedError"
    /\ nextVerId = 2
    /\ \E v \in JoinRows(loc[p].email, verifications), u \in users :
         u.nickname = v.nickname /\ u.email # v.email

\* C10: login goes on to return the user only when a user with the email
\* exists whose stored hash matches the plaintext; otherwise it fails with
\* Unauthorized, for an unknown email as for a wrong password; the user
\* returned is the one with that email; no step of it changes a store.
C10_LoginChecksHash ==
  [][\A p \in Procs :
       /\ \A email \in Emails, plain \in Plains :
            Login(p, email, plain) =>
              /\ users' = users
              /\ verifications' = verifications
              /\ IF \E u \in users : u.email = email /\ BcryptCompare(plain, u.password)
                 THEN pc'[p] = "login_user"
                 ELSE pc'[p] = "idle" /\ loc'[p].res = "Unauthorized"
       /\ LoginFindUser(p) =>
            /\ users' = users
            /\ verifications' = verifications
            /\ loc'[p].res = "user"
            /\ \E u \in users : u.id = loc'[p].ret /\ u.email = loc[p].email]_vars

\* one login has returned the user of its email, another has failed
C10_Witness ==
  /\ loc[1].op = "login" /\ loc[1].res = "user"
  /\ \E u \in users : u.id = loc[1].ret /\ u.email = loc[1].email
  /\ loc[2].op = "login" /\ loc[2].res = "Unauthorized"

\* C12: a join that found no pending join verification for its email is
\* rejected at its availability check when a user or a pending verification
\* claims its email or its nickname; the rejection names "Email" whenever the
\* email is claimed and "Nickname" otherwise; the rejected join ends there,
\* having inserted no record and sent no email.
C12_JoinRejectsClaimed ==
  [][\A p \in Procs :
       JoinCheck(p) =>
         LET emailClaimed ==
               \/ \E u \in users : u.email = loc[p].email
               \/ \E v \in verifications : v.email = loc[p].email
             nicknameClaimed ==
               \/ \E u \in users : u.nickname = loc[p].nickname
               \/ \E v \in verifications : v.nickname = loc[p].nickname
         IN (emailClaimed \/ nicknameClaimed) =>
              /\ pc'[p] = "idle"
              /\ loc'[p].res = (IF emailClaimed THEN "Email" ELSE "Nickname")
              /\ verifications' = verifications]_vars

C16_RecordWrittenBeforeEmail ==
  [][\A p \in Procs :
       /\ (pc'[p] = "mail" /\ pc[p] # "mail") =>
            \/ JoinUpdate(p)
            \/ JoinSave(p)
            \/ ChangePasswordUpdate(p)
            \/ ChangePasswordSave(p)
       /\ (JoinSave(p) \/ ChangePasswordSave(p)) =>
            \E v \in verifications' \ verifications :
              v.email = loc[p].email /\ v.confirmCode = loc[p].confirmCode
       /\ ((JoinUpdate(p) \/ ChangePasswordUpdate(p))
             /\ \E v \in verifications : v.id = loc[p].id) =>
            \E v \in verifications' :
              v.id = loc[p].id /\ v.confirmCode = loc[p].confirmCode
       /\ \A delivered \in BOOLEAN :
            SendConfirmEmail(p, delivered) =>
              /\ verifications' = verifications
              /\ pc'[p] = "idle"
              /\ loc'[p].res = (IF delivered THEN "success" ELSE "mail failed")]_vars

\* the one call made was a join whose email failed: its record is stored
C16_Witness ==
  \E p \in Procs :
    /\ pc[p] = "idle"
    /\ loc[p].op = "join"
    /\ loc[p].res = "mail failed"
    /\ calls = 1
    /\ JoinRows(loc[p].email, verifications) # {}

\* C17: changePasswordNotLoggedIn for an email no user has fails with "User
\* email does not exist." and ends there, with no verification written and
\* no email sent; and every change_password verification is for the email of
\* an existing user.
C17_ChangePasswordNeedsUser ==
  [][/\ \A p \in Procs, email \in Emails :
          (ChangePasswordNotLoggedIn(p, email) /\ ~ \E u \in users : u.email = email) =>
            /\ pc'[p] = "idle"
            /\ loc'[p].res = "User email does not exist."
            /\ verifications' = verifications
     /\ \A v \in verifications' :
          v.mode = "change_password" => \E u \in users' : u.email = v.email]_vars

\* one call has failed for an email without user, and a change_password
\* verification is pending for the email of a user
C17_Witness ==
  /\ \E p \in Procs :
       /\ pc[p] = "idle"
       /\ loc[p].op = "changePasswordNotLoggedIn"
       /\ loc[p].res = "User email does not exist."
       /\ ~ \E u \in users : u.email = loc[p].email
  /\ \E v \in verifications : v.mode = "change_password"

\* C19: whenever no handler is in flight, no email has both a user and a
\* pending join verification, and no two users have the same email.
C19_NoUserWithPendingJoin ==
  (\A p \in Procs : pc[p] = "idle") =>
    /\ \A u \in users : JoinRows(u.email, verifications) = {}
    /\ \A u, w \in users : u.email = w.email => u = w

\* C15: a createQuestion request of a user whose is_admin is false fails with
\* the not-admin error and inserts nothing; a row is only ever added to the
\* questions by the request of an admin.
C15_OnlyAdminCreatesQuestion ==
  [][/\ \A rejected \in BOOLEAN :
          CreateQuestion(FALSE, rejected) =>
            qres' = "not_admin" /\ questions' = questions
     /\ {q.id : q \in questions'} # {q.id : q \in questions} =>
          /\ \E rejected \in BOOLEAN : CreateQuestion(TRUE, rejected)
          /\ ~ \E rejected \in BOOLEAN : CreateQuestion(FALSE, rejected)]_vars

\* a request was refused as not admin after an admin's request had added a row
C15_Witness ==
  /\ qres = "not_admin"
  /\ \E q \in questions : q.id > MaxSeedQuestions

\* C13: the user that confirm creates is an admin exactly when the adminKey
\* given to the join that last wrote its verification equals the configured
\* ADMIN_KEY secret; a join that gave no adminKey never makes an admin,
\* whatever the configuration holds.
C13_AdminOnlyWithSecret ==
  [][\A p \in Procs :
       ConfirmSave(p) =>
         \A u \in users' \ users :
           u.is_admin = (/\ joinKey[u.email] # "undefined"
                         /\ joinKey[u.email] = adminKeyCfg)]_vars

\* the change_password verifications of an email
ChangePasswordRows(email, rows) ==
  {v \in rows : v.email = email /\ v.mode = "change_password"}

\* C11: confirmChangePasswordNotLoggedIn(email, code, newPassword) with the
\* code stored in the (email, change_password) verification goes on to set
\* that user's hash to the hash of newPassword and to delete the (email,
\* change_password) verification; with a code that does not match it fails,
\* the users and the verifications staying as they were.
C11_ConfirmChangesPassword ==
  [][\A p \in Procs :
       (\A email \in Emails, confirmCode \in Codes, password \in Plains :
          ConfirmChangePasswordNotLoggedIn(p, email, confirmCode, password) =>
            IF \E v \in ChangePasswordRows(email, verifications) :
                 v.confirmCode = confirmCode
            THEN pc'[p] = "ccp_update" /\ loc'[p].password = password
                 /\ loc'[p].email = email
            ELSE pc'[p] = "idle"
                 /\ loc'[p].res = "Verification does not exists."
                 /\ users' = users /\ verifications' = verifications)
       /\ (\A salt \in Salts :
             ConfirmChangePasswordUpdate(p, salt) =>
               (\E u \in users' : u.email = loc[p].email)
               /\ (\A u \in users' :
                     u.email = loc[p].email =>
                       BcryptCompare(loc[p].password, u.password)))
       /\ (ConfirmChangePasswordDelete(p) =>
             ChangePasswordRows(loc[p].email, verifications') = {}
             /\ loc'[p].res = "success")]_vars

\* a reset was confirmed: the user's hash is a new one and no change_password
\* verification of the email is left
C11_Witness ==
  \E p \in Procs :
    /\ pc[p] = "idle"
    /\ loc[p].op = "confirmChangePasswordNotLoggedIn"
    /\ loc[p].res = "success"
    /\ ChangePasswordRows(loc[p].email, verifications) = {}
    /\ \E u \in users : u.email = loc[p].email /\ u \notin {SeedUser, SecondUser}

\* C18: changePassword(userId, oldPassword, newPassword) goes on to replace
\* the stored hash only when a user with that id exists and oldPassword
\* matches the stored hash, and then writes the hash of newPassword to that
\* user alone; when the user is missing or oldPassword does not match it
\* fails, and no user's stored hash changes.
C18_ChangePasswordChecksOld ==
  [][\A p \in Procs :
       (\A id \in UserIds, plain \in Plains, newPassword \in Plains :
          ChangePassword(p, id, plain, newPassword) =>
            users' = users
            /\ (IF \E u \in users : u.id = id /\ BcryptCompare(plain, u.password)
                THEN pc'[p] = "chp_update" /\ loc'[p].id = id
                     /\ loc'[p].password = newPassword
                ELSE pc'[p] = "idle"
                     /\ loc'[p].res =
                          (IF \E u \in users : u.id = id THEN "Unauthorized"
                           ELSE "User does not exist.")))
       /\ (\A salt \in Salts :
             ChangePasswordUpdateUser(p, salt) =>
               (\E h \in {EncryptPassword(loc[p].password, salt)} :
                  users' = {IF u.id = loc[p].id THEN [u EXCEPT !.password = h]
                            ELSE u : u \in users})
               /\ (\E u \in users' :
                     u.id = loc[p].id /\ BcryptCompare(loc[p].password, u.password)))]_vars

\* one changePassword went through and changed a stored hash, another was
\* refused for its old password
C18_Witness ==
  \E p, q \in Procs :
    /\ pc[p] = "idle" /\ loc[p].op = "changePassword" /\ loc[p].res = "success"
    /\ pc[q] = "idle" /\ loc[q].op = "changePassword" /\ loc[q].res = "Unauthorized"
    /\ users # {SeedUser, SecondUser}

\* the join verifications among some rows
JoinModeRows(rows) == {v \in rows : v.mode = "join"}

\* C20: the modes of verification are isolated. confirm goes on to create a
\* user only on a join verification of the email and code, and
\* confirmChangePasswordNotLoggedIn goes on to change a password only on a
\* change_password verification of the email and code, whatever record of the
\* other mode matches them; the delete of each removes no record of the other.
C20_ModesIsolated ==
  [][\A p \in Procs :
       (\A email \in Emails, confirmCode \in Codes :
          Confirm(p, email, confirmCode) =>
            (pc'[p] = "confirm_save") =
              (\E v \in JoinRows(email, verifications) : v.confirmCode = confirmCode))
       /\ (\A email \in Emails, confirmCode \in Codes, password \in Plains :
             ConfirmChangePasswordNotLoggedIn(p, email, confirmCode, password) =>
               (pc'[p] = "ccp_update") =
                 (\E v \in ChangePasswordRows(email, verifications) :
                    v.confirmCode = confirmCode))
       /\ (ConfirmChangePasswordDelete(p) =>
             JoinModeRows(verifications') = JoinModeRows(verifications))
       /\ (ConfirmDelete(p) =>
             verifications' \ JoinModeRows(verifications') =
               verifications \ JoinModeRows(verifications))]_vars

\* a password reset was asked to confirm on the strength of a join
\* verification of its email and code, and was refused: the join verification
\* is still there and no user was touched
C20_Witness ==
  \E p \in Procs :
    /\ pc[p] = "idle"
    /\ loc[p].op = "confirmChangePasswordNotLoggedIn"
    /\ loc[p].res = "Verification does not exists."
    /\ JoinRows(loc[p].email, verifications) # {}
    /\ ChangePasswordRows(loc[p].email, verifications) = {}
    /\ users = {SeedUser}

====
